---------------------------- MODULE Spec2Model ----------------------------
(***************************************************************************)
(* DebtWise: the debt amortization calculators, the payoff plan generator  *)
(* and the budget period / rollover engine.                                *)
(*                                                                         *)
(* Number representation.  Money that crosses an API boundary has two      *)
(* decimal places and is held as an integer number of cents.  Interest     *)
(* rates have two decimal places and are held in hundredths of a percent   *)
(* (18.75% = 1875), so that monthly_rate = interest_rate / 100 / 12 is the *)
(* rational interest_rate / 120000.  Inside calculate_payoff_time the      *)
(* Decimal values grow digits every month; there they are held in units    *)
(* of 1/Scale cent, and a final fraction as numerator and denominator.     *)
(* The specifications enumerate only inputs on which this fixed point      *)
(* arithmetic is exact, i.e. equal to what decimal.Decimal computes.       *)
(***************************************************************************)
EXTENDS Integers, Sequences, FiniteSets, TLC

VARIABLES
    calc_in,      \* arguments of the calculator call under study
    calc_out,     \* what the last calculator call returned
    sim,          \* month by month compounding of calc_in, the reference
    debts,        \* the debts table, in insertion order; the index is the id
    plan,         \* what the last generate_payoff_plan call returned
    payments,     \* the debt_payments table, in insertion order
    last,         \* the last DebtService request, its answer and the row it met
    budgets,      \* the budgets table, in insertion order; the index is the id
    periods,      \* the budget_periods table, in insertion order
    transactions, \* the transactions table, in insertion order
    today,        \* what date.today() returns
    cap_history,  \* every max_rollover_periods value each budget has had
    rollover_calls, \* the process_rollover calls under way, each in its transaction
    redis,        \* the keys of the rate limiter in Redis: value and time to live
    rate_limit,   \* the last check_rate_limit call and what it returned
    windows,      \* per key, the window that began with its first counted check
    error_queue,  \* ErrorTracker.error_queue, errors named by their rank
    error_log,    \* the error_log list in Redis, newest first
    flush,        \* the _flush_errors call that is under way, if any
    tracker       \* the Redis client, the errors tracked so far, the flush task

vars == <<calc_in, calc_out, sim, debts, plan, payments, last,
          budgets, periods, transactions, today, cap_history, rollover_calls,
          redis, rate_limit, windows, error_queue, error_log, flush, tracker>>

debt_vars == <<debts, plan, payments, last>>

budget_vars ==
    <<budgets, periods, transactions, today, cap_history, rollover_calls>>

limiter_vars == <<redis, rate_limit, windows>>

\* the budget tables as the migrations leave them
NoBudgets ==
    /\ budgets = <<>>
    /\ periods = <<>>
    /\ transactions = <<>>
    /\ today = 1
    /\ cap_history = <<>>
    /\ rollover_calls = <<>>

tracker_vars == <<error_queue, error_log, flush, tracker>>

\* no rate limit has been checked
NoChecks ==
    /\ redis = <<>>
    /\ rate_limit = [op |-> "none"]
    /\ windows = <<>>

\* no error tracker is running
NoTracker ==
    /\ error_queue = <<>>
    /\ error_log = <<>>
    /\ flush = [state |-> "idle"]
    /\ tracker = [state |-> "none"]

-----------------------------------------------------------------------------
(* Decimal helpers *)

\* fixed point resolution used inside calculate_payoff_time: 1/Scale cent
Scale == 32 * 32

\* denominator of monthly_rate when interest_rate is in hundredths of a percent
RateDen == 100 * 100 * 12

Max(a, b) == IF a >= b THEN a ELSE b

Min(a, b) == IF a <= b THEN a ELSE b

\* Decimal.quantize(Decimal("0.01")) under the default context (ROUND_HALF_EVEN)
\* of the non-negative rational n / d
RoundHalfEven(n, d) ==
    LET q == n \div d
        r == n % d
    IN  IF 2 * r < d THEN q
        ELSE IF 2 * r > d THEN q + 1
        ELSE IF q % 2 = 0 THEN q ELSE q + 1

\* Decimal.quantize(Decimal("0.01"), rounding=ROUND_HALF_UP) of the
\* non-negative rational n / d
RoundHalfUp(n, d) ==
    LET q == n \div d
        r == n % d
    IN  IF 2 * r >= d THEN q + 1 ELSE q

-----------------------------------------------------------------------------
(* DebtService.calculate_payoff_time *)

\* the "Safety limit" of the simulation loop
SafetyLimit == 1000

\* the (-1, Decimal("-1")) answer: months -1, total interest -1.00
NeverPaysOff == [months |-> -1, total_interest |-> -100]

\* remaining_balance * monthly_rate, in the unit of remaining_balance
InterestCharge(remaining_balance, interest_rate) ==
    (remaining_balance * interest_rate) \div RateDen

\* the loop's condition: remaining_balance > 0 and months < 1000
LoopCond(s) == s.remaining_balance > 0 /\ s.months < SafetyLimit

\* LoopBody with the whole payment applied to principal (the interest charge
\* is recorded but not deducted from the payment)
LoopBody_InterestNotDeducted(s, interest_rate, payment_amount) ==
    LET interest_charge == InterestCharge(s.remaining_balance, interest_rate)
        principal_payment == Min(payment_amount, s.remaining_balance)
    IN  [remaining_balance |-> s.remaining_balance - principal_payment,
         months |-> s.months + 1,
         total_interest |->
             [num |-> s.total_interest.num + interest_charge * s.total_interest.den,
              den |-> s.total_interest.den]]

\* the loop's body, one month; amounts in 1/Scale cent, total_interest as the
\* rational num / den
LoopBody(s, interest_rate, payment_amount) ==
    LET interest_charge == InterestCharge(s.remaining_balance, interest_rate)
        principal_payment == payment_amount - interest_charge
    IN  IF principal_payment > s.remaining_balance
        THEN \* principal capped at the balance, interest scaled by
             \* remaining_balance / payment_amount
             [remaining_balance |-> 0,
              months |-> s.months + 1,
              total_interest |->
                  [num |-> s.total_interest.num * payment_amount
                             + interest_charge * s.remaining_balance,
                   den |-> s.total_interest.den * payment_amount]]
        ELSE [remaining_balance |-> s.remaining_balance - principal_payment,
              months |-> s.months + 1,
              total_interest |->
                  [num |-> s.total_interest.num
                             + interest_charge * s.total_interest.den,
                   den |-> s.total_interest.den]]

\* the while loop, run until its condition fails or n iterations are done
\* (evaluated by halving n, which keeps the evaluation stack shallow)
RECURSIVE PayoffLoop(_, _, _, _)
PayoffLoop(s, interest_rate, payment_amount, n) ==
    IF n = 0 \/ ~LoopCond(s) THEN s
    ELSE IF n = 1 THEN LoopBody(s, interest_rate, payment_amount)
    ELSE LET first == PayoffLoop(s, interest_rate, payment_amount, n \div 2)
         IN  PayoffLoop(first, interest_rate, payment_amount, n - n \div 2)

calculate_payoff_time(balance, interest_rate, payment_amount) ==
    IF balance <= 0 \/ payment_amount <= 0
    THEN [months |-> 0, total_interest |-> 0]
    ELSE IF payment_amount * RateDen <= balance * interest_rate
    THEN NeverPaysOff
    ELSE LET end == PayoffLoop([remaining_balance |-> balance * Scale,
                                months |-> 0,
                                total_interest |-> [num |-> 0, den |-> 1]],
                               interest_rate, payment_amount * Scale, SafetyLimit)
         IN  IF end.months >= SafetyLimit
             THEN NeverPaysOff
             ELSE [months |-> end.months,
                   total_interest |->
                       RoundHalfEven(end.total_interest.num,
                                     end.total_interest.den * Scale)]

-----------------------------------------------------------------------------
(* DebtService._calculate_payment_split *)

\* _calculate_payment_split without the recalculation of interest when the
\* principal is capped at the balance
_calculate_payment_split_NoRecalc(balance, annual_rate, payment) ==
    LET interest0 == RoundHalfUp(balance * annual_rate, RateDen)
        interest1 == IF interest0 > payment THEN payment ELSE interest0
        principal1 == IF interest0 > payment THEN 0 ELSE payment - interest0
    IN  [principal |-> Min(principal1, balance), interest |-> interest1]

\* _calculate_payment_split without the cap of the principal at the balance
_calculate_payment_split_Uncapped(balance, annual_rate, payment) ==
    LET interest0 == RoundHalfUp(balance * annual_rate, RateDen)
    IN  IF interest0 > payment
        THEN [principal |-> 0, interest |-> payment]
        ELSE [principal |-> payment - interest0, interest |-> interest0]

_calculate_payment_split(balance, annual_rate, payment) ==
    LET interest0 == RoundHalfUp(balance * annual_rate, RateDen)
        interest1 == IF interest0 > payment THEN payment ELSE interest0
        principal1 == IF interest0 > payment THEN 0 ELSE payment - interest0
    IN  IF principal1 > balance
        THEN [principal |-> balance, interest |-> payment - balance]
        ELSE [principal |-> principal1, interest |-> interest1]

-----------------------------------------------------------------------------
(* DebtService.generate_payoff_plan *)

\* get_user_debts(user_id) with include_inactive = False: the user's rows
\* with is_active = True, in table order
get_user_debts(user_id) ==
    SelectSeq(debts, LAMBDA d : d.user_id = user_id /\ d.is_active)

\* the key the reversed avalanche sort orders by, smallest first
SortKey_AvalancheAscending(d, strategy) ==
    IF strategy = "snowball" THEN d.current_balance
    ELSE IF strategy = "avalanche" THEN d.interest_rate
    ELSE 0

\* the key list.sort orders by, smallest first: the balance for snowball, the
\* rate taken downwards for avalanche (reverse=True), nothing otherwise
SortKey(d, strategy) ==
    IF strategy = "snowball" THEN d.current_balance
    ELSE IF strategy = "avalanche" THEN 0 - d.interest_rate
    ELSE 0

\* list.sort is stable: x goes behind every element whose key is not larger
RECURSIVE InsertByKey(_, _, _)
InsertByKey(x, sorted, strategy) ==
    IF sorted = <<>> THEN <<x>>
    ELSE IF SortKey(x, strategy) < SortKey(Head(sorted), strategy)
    THEN <<x>> \o sorted
    ELSE <<Head(sorted)>> \o InsertByKey(x, Tail(sorted), strategy)

RECURSIVE SortDebts(_, _)
SortDebts(ds, strategy) ==
    IF ds = <<>> THEN <<>>
    ELSE InsertByKey(ds[Len(ds)], SortDebts(SubSeq(ds, 1, Len(ds) - 1), strategy),
                     strategy)

\* the projection loop over enumerate(debts), from 0-based index i on, with
\* the loop's variables projections, total_months and available_extra
RECURSIVE ProjectDebts(_, _, _)
ProjectDebts(ds, i, acc) ==
    IF i >= Len(ds) THEN acc
    ELSE LET debt == ds[i + 1]
             payment == IF i = 0
                        THEN debt.minimum_payment + acc.available_extra
                        ELSE debt.minimum_payment
             r == calculate_payoff_time(debt.current_balance, debt.interest_rate,
                                        payment)
         IN  IF r.months = -1
             THEN ProjectDebts(ds, i + 1, acc)
             ELSE ProjectDebts(ds, i + 1,
                    [projections |-> Append(acc.projections,
                         [debt_id |-> debt.id,
                          current_balance |-> debt.current_balance,
                          payoff_order |-> i + 1,
                          months_to_payoff |-> r.months,
                          payoff_date |-> r.months * 30,
                          total_interest |-> r.total_interest,
                          total_payments |-> debt.current_balance + r.total_interest]),
                     total_months |-> Max(acc.total_months, r.months),
                     available_extra |-> IF i = 0
                                         THEN acc.available_extra + debt.minimum_payment
                                         ELSE acc.available_extra])

\* the minimum-payments-only loop, from 1-based index k on
RECURSIVE MinimumOnly(_, _, _)
MinimumOnly(ds, k, acc) ==
    IF k > Len(ds) THEN acc
    ELSE LET r == calculate_payoff_time(ds[k].current_balance, ds[k].interest_rate,
                                        ds[k].minimum_payment)
         IN  MinimumOnly(ds, k + 1,
                 IF r.months > 0
                 THEN [min_only_months |-> Max(acc.min_only_months, r.months),
                       min_only_interest |-> acc.min_only_interest + r.total_interest]
                 ELSE acc)

RECURSIVE SumInterest(_)
SumInterest(projections) ==
    IF projections = <<>> THEN 0
    ELSE Head(projections).total_interest + SumInterest(Tail(projections))

\* dates are days counted from date.today()
generate_payoff_plan(user_id, strategy, extra_payment, debt_ids) ==
    LET active == get_user_debts(user_id)
        chosen == IF debt_ids # {}
                  THEN SelectSeq(active, LAMBDA d : d.id \in debt_ids)
                  ELSE active
    IN  IF chosen = <<>>
        THEN [strategy |-> strategy,
              extra_monthly_payment |-> extra_payment,
              total_months |-> 0,
              payoff_date |-> 0,
              total_interest_saved |-> 0,
              time_saved_months |-> 0,
              debts |-> <<>>]
        ELSE LET sorted == SortDebts(chosen, strategy)
                 proj == ProjectDebts(sorted, 0,
                             [projections |-> <<>>, total_months |-> 0,
                              available_extra |-> extra_payment])
                 minonly == MinimumOnly(sorted, 1,
                                [min_only_months |-> 0, min_only_interest |-> 0])
                 interest_saved == minonly.min_only_interest
                                       - SumInterest(proj.projections)
                 time_saved == minonly.min_only_months - proj.total_months
             IN  [strategy |-> strategy,
                  extra_monthly_payment |-> extra_payment,
                  total_months |-> proj.total_months,
                  payoff_date |-> proj.total_months * 30,
                  total_interest_saved |-> interest_saved,
                  time_saved_months |-> Max(0, time_saved),
                  debts |-> proj.projections]

-----------------------------------------------------------------------------
(* Specification of the calculators: calls on drawn inputs, followed by the  *)
(* month by month reference simulation of the same input                   *)

MaxBalance == 6
MaxPayment == 5

\* interest rates whose monthly rate is a terminating decimal:
\* 0%, 37.50% (1/32 a month) and 75.00% (1/16 a month)
Rates == {0, 3750, 7500}

\* inputs on which the fixed point arithmetic is exact: no interest, or a
\* payment that never covers the interest, or a payoff within two months
ExactInput(balance, rate, payment) ==
    \/ rate = 0
    \/ payment * RateDen <= balance * rate
    \/ 20 * payment >= 11 * balance

Balances == {16 * k : k \in 0..MaxBalance}

\* a minimum payment may be 0 (ge=0)
Payments == {0, 1, 2, 3} \cup {20 * k : k \in 1..MaxPayment}

CalcInputs ==
    {i \in [balance : Balances \cup {SafetyLimit - 1, SafetyLimit, SafetyLimit + 1},
            rate : Rates,
            payment : Payments] : ExactInput(i.balance, i.rate, i.payment)}

InitCalc ==
    /\ NoBudgets
    /\ NoChecks
    /\ NoTracker
    /\ calc_in \in CalcInputs
    /\ calc_out = [op |-> "none"]
    /\ sim = [month |-> 0, balance |-> calc_in.balance * Scale]
    /\ debts = <<>>
    /\ plan = [strategy |-> "none"]
    /\ payments = <<>>
    /\ last = [op |-> "none"]

CallPayoffTime ==
    /\ sim.month = 0
    /\ calc_out' = [op |-> "payoff",
                    result |-> calculate_payoff_time(calc_in.balance, calc_in.rate,
                                                     calc_in.payment)]
    /\ UNCHANGED <<calc_in, sim, debts, plan, payments, last>>
    /\ UNCHANGED budget_vars
    /\ UNCHANGED limiter_vars
    /\ UNCHANGED tracker_vars

CallPaymentSplit ==
    /\ sim.month = 0
    /\ calc_in.payment > 0
    /\ calc_out' = [op |-> "split",
                    result |-> _calculate_payment_split(calc_in.balance, calc_in.rate,
                                                        calc_in.payment)]
    /\ UNCHANGED <<calc_in, sim, debts, plan, payments, last>>
    /\ UNCHANGED budget_vars
    /\ UNCHANGED limiter_vars
    /\ UNCHANGED tracker_vars

\* the payment exceeds the first month's interest on a positive balance
CoversInterest(i) ==
    i.balance > 0 /\ i.payment * RateDen > i.balance * i.rate

\* One month of the compounding simulation of the glossary: the balance
\* accrues interest at APR/12 and is reduced by the payment, not below 0.
AccrueMonth ==
    /\ CoversInterest(calc_in)
    /\ sim.balance > 0
    /\ sim' = [month |-> sim.month + 1,
               balance |-> Max(0, sim.balance
                                  + (sim.balance * calc_in.rate) \div RateDen
                                  - calc_in.payment * Scale)]
    /\ UNCHANGED <<calc_in, calc_out, debts, plan, payments, last>>
    /\ UNCHANGED budget_vars
    /\ UNCHANGED limiter_vars
    /\ UNCHANGED tracker_vars

NextCalc == CallPayoffTime \/ CallPaymentSplit \/ AccrueMonth

SpecCalc == InitCalc /\ [][NextCalc]_vars

-----------------------------------------------------------------------------
(* DebtService.create_debt and delete_debt *)

Users == {1, 2}

\* create_debt(user_id, debt_data): a new row, status ACTIVE and is_active
\* True by the column defaults
create_debt(user_id, debt_data) ==
    Append(debts, [id |-> Len(debts) + 1,
                   user_id |-> user_id,
                   current_balance |-> debt_data.current_balance,
                   interest_rate |-> debt_data.interest_rate,
                   minimum_payment |-> debt_data.minimum_payment,
                   status |-> "active",
                   is_active |-> TRUE])

\* the row with that id, whoever owns it
get_debt_AnyUser(debt_id, user_id) ==
    {d \in {debts[k] : k \in 1..Len(debts)} : d.id = debt_id}

\* get_debt(debt_id, user_id): the row with that id and owner, or none
get_debt(debt_id, user_id) ==
    {d \in {debts[k] : k \in 1..Len(debts)} : d.id = debt_id /\ d.user_id = user_id}

\* delete_debt(debt_id, user_id): soft delete of an owned debt
delete_debt(debt_id, user_id) ==
    IF get_debt(debt_id, user_id) = {} THEN debts
    ELSE [debts EXCEPT ![debt_id].is_active = FALSE]

-----------------------------------------------------------------------------
(* Specification of the payoff planner: debts are created and soft-deleted  *)
(* and plans are generated for them                                        *)

MaxDebts == 3

Strategies == {"snowball", "avalanche", "custom"}

\* extra_monthly_payment values of the requests
Extras == {0, 60}

\* debt_ids values of the requests; the empty set stands for None
DebtIdChoices == {{}, {1, 3}}

Debt(current_balance, interest_rate, minimum_payment) ==
    [current_balance |-> current_balance,
     interest_rate |-> interest_rate,
     minimum_payment |-> minimum_payment]

\* the debts the requests create: their projections are exact for every
\* payment a plan can try (ExactInput).  0.32 at 0% paying 0.03 takes 11
\* months; 0.96 at 37.5% paying 0.03 never covers its interest of 0.03;
\* the others are paid off within two months.
DebtCatalog ==
    {Debt(32, 0, 3), Debt(96, 0, 60), Debt(64, 3750, 60),
     Debt(96, 3750, 3), Debt(64, 7500, 60)}

PlanUser == 1

InitPlan ==
    /\ NoBudgets
    /\ NoChecks
    /\ NoTracker
    /\ debts = <<>>
    /\ plan = [strategy |-> "none"]
    /\ calc_in = [balance |-> 0, rate |-> 0, payment |-> 0]
    /\ calc_out = [op |-> "none"]
    /\ sim = [month |-> 0, balance |-> 0]
    /\ payments = <<>>
    /\ last = [op |-> "none"]

CreateDebt ==
    /\ Len(debts) < MaxDebts
    /\ \E debt_data \in DebtCatalog : debts' = create_debt(PlanUser, debt_data)
    /\ plan' = [strategy |-> "none"]
    /\ UNCHANGED <<calc_in, calc_out, sim, payments, last>>
    /\ UNCHANGED budget_vars
    /\ UNCHANGED limiter_vars
    /\ UNCHANGED tracker_vars

DeleteDebt ==
    /\ \E debt_id \in 1..Len(debts) :
          /\ debts[debt_id].is_active
          /\ debts' = delete_debt(debt_id, PlanUser)
    /\ plan' = [strategy |-> "none"]
    /\ UNCHANGED <<calc_in, calc_out, sim, payments, last>>
    /\ UNCHANGED budget_vars
    /\ UNCHANGED limiter_vars
    /\ UNCHANGED tracker_vars

GeneratePayoffPlan ==
    /\ \E strategy \in Strategies, extra_payment \in Extras, debt_ids \in DebtIdChoices :
          plan' = generate_payoff_plan(PlanUser, strategy, extra_payment, debt_ids)
    /\ UNCHANGED <<debts, calc_in, calc_out, sim, payments, last>>
    /\ UNCHANGED budget_vars
    /\ UNCHANGED limiter_vars
    /\ UNCHANGED tracker_vars

NextPlan == CreateDebt \/ DeleteDebt \/ GeneratePayoffPlan

SpecPlan == InitPlan /\ [][NextPlan]_vars

-----------------------------------------------------------------------------
(* DebtService.update_debt and record_payment *)

DebtStatus == {"active", "paid_off", "in_collections", "written_off"}

\* update_debt(debt_id, user_id, debt_update): every field that is set in
\* the update (exclude_unset) is assigned to the owned row
update_debt(debt_id, user_id, debt_update) ==
    IF get_debt(debt_id, user_id) = {} THEN debts
    ELSE [debts EXCEPT ![debt_id] =
             [f \in DOMAIN @ |->
                 IF f \in DOMAIN debt_update THEN debt_update[f] ELSE @[f]]]

\* record_payment that applies the whole payment amount to the balance
record_payment_WholeAmount(user_id, payment_data) ==
    LET found == get_debt(payment_data.debt_id, user_id)
    IN  IF found = {} \/ (\E d \in found : d.status = "paid_off")
        THEN [debts |-> debts, payments |-> payments, ok |-> FALSE]
        ELSE LET debt == CHOOSE d \in found : TRUE
                 split == _calculate_payment_split(debt.current_balance,
                              debt.interest_rate, payment_data.amount)
                 payment == [id |-> Len(payments) + 1,
                             debt_id |-> payment_data.debt_id,
                             user_id |-> user_id,
                             amount |-> payment_data.amount,
                             principal_amount |-> split.principal,
                             interest_amount |-> split.interest]
                 balance == debt.current_balance - payment_data.amount
             IN  [debts |-> [debts EXCEPT ![debt.id] =
                                IF balance <= 0
                                THEN [@ EXCEPT !.current_balance = 0,
                                               !.status = "paid_off"]
                                ELSE [@ EXCEPT !.current_balance = balance]],
                  payments |-> Append(payments, payment),
                  ok |-> TRUE]

\* record_payment that marks the debt paid off only below a zero balance
record_payment_StrictlyBelowZero(user_id, payment_data) ==
    LET found == get_debt(payment_data.debt_id, user_id)
    IN  IF found = {} \/ (\E d \in found : d.status = "paid_off")
        THEN [debts |-> debts, payments |-> payments, ok |-> FALSE]
        ELSE LET debt == CHOOSE d \in found : TRUE
                 split == _calculate_payment_split(debt.current_balance,
                              debt.interest_rate, payment_data.amount)
                 payment == [id |-> Len(payments) + 1,
                             debt_id |-> payment_data.debt_id,
                             user_id |-> user_id,
                             amount |-> payment_data.amount,
                             principal_amount |-> split.principal,
                             interest_amount |-> split.interest]
                 balance == debt.current_balance - split.principal
             IN  [debts |-> [debts EXCEPT ![debt.id] =
                                IF balance < 0
                                THEN [@ EXCEPT !.current_balance = 0,
                                               !.status = "paid_off"]
                                ELSE [@ EXCEPT !.current_balance = balance]],
                  payments |-> Append(payments, payment),
                  ok |-> TRUE]

\* record_payment(user_id, payment_data): the tables after the call, and
\* whether a payment (the last row of payments) is returned rather than None
\* (None when the debt is not the caller's or is paid off)
record_payment(user_id, payment_data) ==
    LET found == get_debt(payment_data.debt_id, user_id)
    IN  IF found = {} \/ (\E d \in found : d.status = "paid_off")
        THEN [debts |-> debts, payments |-> payments, ok |-> FALSE]
        ELSE LET debt == CHOOSE d \in found : TRUE
                 split == _calculate_payment_split(debt.current_balance,
                              debt.interest_rate, payment_data.amount)
                 payment == [id |-> Len(payments) + 1,
                             debt_id |-> payment_data.debt_id,
                             user_id |-> user_id,
                             amount |-> payment_data.amount,
                             principal_amount |-> split.principal,
                             interest_amount |-> split.interest]
                 balance == debt.current_balance - split.principal
             IN  [debts |-> [debts EXCEPT ![debt.id] =
                                IF balance <= 0
                                THEN [@ EXCEPT !.current_balance = 0,
                                               !.status = "paid_off"]
                                ELSE [@ EXCEPT !.current_balance = balance]],
                  payments |-> Append(payments, payment),
                  ok |-> TRUE]

\* GET /debts/{debt_id}/payments: the payments of the debt as get_debt loads
\* them with it, nothing when get_debt finds no debt (404)
get_debt_payments(debt_id, user_id) ==
    IF get_debt(debt_id, user_id) = {} THEN <<>>
    ELSE SelectSeq(payments, LAMBDA p : p.debt_id = debt_id)

-----------------------------------------------------------------------------
(* Specification of the debt ledger: users create, update, soft-delete and  *)
(* pay debts                                                               *)

MaxDebtRows == 1
MaxPayments == 2

\* current_balance values of create and update requests
LedgerBalances == {0, 100}

\* payment amounts: below one month's interest on 1.00 at 75% (0.06), a
\* part payment, and more than balance plus interest
PaymentAmounts == {5, 50, 150}

\* the updates the requests make: a corrected balance or another status
DebtUpdates ==
    [current_balance : {100}] \cup [status : {"paid_off", "written_off"}]

InitDebt ==
    /\ NoBudgets
    /\ NoChecks
    /\ NoTracker
    /\ debts = <<>>
    /\ payments = <<>>
    /\ last = [op |-> "none"]
    /\ plan = [strategy |-> "none"]
    /\ calc_in = [balance |-> 0, rate |-> 0, payment |-> 0]
    /\ calc_out = [op |-> "none"]
    /\ sim = [month |-> 0, balance |-> 0]

LedgerCreate ==
    /\ Len(debts) < MaxDebtRows
    /\ \E user_id \in Users, current_balance \in LedgerBalances,
          interest_rate \in {0, 7500} :
          debts' = create_debt(user_id, Debt(current_balance, interest_rate, 10))
    /\ last' = [op |-> "create_debt"]
    /\ UNCHANGED <<payments, plan, calc_in, calc_out, sim>>
    /\ UNCHANGED budget_vars
    /\ UNCHANGED limiter_vars
    /\ UNCHANGED tracker_vars

LedgerUpdate ==
    /\ \E user_id \in Users, debt_id \in 1..Len(debts), debt_update \in DebtUpdates :
          debts' = update_debt(debt_id, user_id, debt_update)
    /\ last' = [op |-> "update_debt"]
    /\ UNCHANGED <<payments, plan, calc_in, calc_out, sim>>
    /\ UNCHANGED budget_vars
    /\ UNCHANGED limiter_vars
    /\ UNCHANGED tracker_vars

LedgerDelete ==
    /\ \E user_id \in Users, debt_id \in 1..Len(debts) :
          debts' = delete_debt(debt_id, user_id)
    /\ last' = [op |-> "delete_debt"]
    /\ UNCHANGED <<payments, plan, calc_in, calc_out, sim>>
    /\ UNCHANGED budget_vars
    /\ UNCHANGED limiter_vars
    /\ UNCHANGED tracker_vars

RecordPayment ==
    /\ Len(payments) < MaxPayments
    /\ \E user_id \in Users, debt_id \in 1..Len(debts), amount \in PaymentAmounts :
          LET after == record_payment(user_id, [debt_id |-> debt_id, amount |-> amount])
          IN  /\ debts' = after.debts
              /\ payments' = after.payments
              /\ last' = [op |-> "record_payment",
                          user_id |-> user_id,
                          debt_id |-> debt_id,
                          amount |-> amount,
                          ok |-> after.ok,
                          before |-> debts[debt_id]]
    /\ UNCHANGED <<plan, calc_in, calc_out, sim>>
    /\ UNCHANGED budget_vars
    /\ UNCHANGED limiter_vars
    /\ UNCHANGED tracker_vars

NextDebt == LedgerCreate \/ LedgerUpdate \/ LedgerDelete \/ RecordPayment

SpecDebt == InitDebt /\ [][NextDebt]_vars

-----------------------------------------------------------------------------
(* datetime.date, timedelta and dateutil.relativedelta *)

\* A date is held as its day number, day 1 being 1 January of EpochYear, so
\* that date + timedelta(days=n) is integer addition and dates compare as
\* integers.  ToDate and ToOrdinal convert between a day number and the
\* fields year, month, day of the proleptic Gregorian calendar.
EpochYear == 2024

IsLeap(year) == (year % 4 = 0 /\ year % 100 # 0) \/ year % 400 = 0

DaysInYear(year) == IF IsLeap(year) THEN 366 ELSE 365

DaysInMonth(year, month) ==
    IF month = 2 THEN (IF IsLeap(year) THEN 29 ELSE 28)
    ELSE IF month \in {4, 6, 9, 11} THEN 30 ELSE 31

RECURSIVE DaysBeforeYear(_)
DaysBeforeYear(year) ==
    IF year <= EpochYear THEN 0
    ELSE DaysBeforeYear(year - 1) + DaysInYear(year - 1)

RECURSIVE DaysBeforeMonth(_, _)
DaysBeforeMonth(year, month) ==
    IF month <= 1 THEN 0
    ELSE DaysBeforeMonth(year, month - 1) + DaysInMonth(year, month - 1)

ToOrdinal(d) == DaysBeforeYear(d.year) + DaysBeforeMonth(d.year, d.month) + d.day

RECURSIVE MonthAndDay(_, _, _)
MonthAndDay(year, month, n) ==
    IF n <= DaysInMonth(year, month) THEN [year |-> year, month |-> month, day |-> n]
    ELSE MonthAndDay(year, month + 1, n - DaysInMonth(year, month))

RECURSIVE YearMonthAndDay(_, _)
YearMonthAndDay(year, n) ==
    IF n <= DaysInYear(year) THEN MonthAndDay(year, 1, n)
    ELSE YearMonthAndDay(year + 1, n - DaysInYear(year))

ToDate(n) == YearMonthAndDay(EpochYear, n)

\* date + relativedelta(years=.., months=..) with the day of the month left
\* as it is, whether or not the month reached has such a day
relativedelta_DayKept(d, years, months) ==
    LET month_index == (d.year + years) * 12 + (d.month - 1) + months
    IN  [year |-> month_index \div 12, month |-> (month_index % 12) + 1, day |-> d.day]

\* date + relativedelta(years=.., months=..): the year and the month move,
\* the day of the month is kept unless the month reached is shorter, and
\* then it is the last day of that month
relativedelta(d, years, months) ==
    LET month_index == (d.year + years) * 12 + (d.month - 1) + months
        year == month_index \div 12
        month == (month_index % 12) + 1
    IN  [year |-> year, month |-> month, day |-> Min(d.day, DaysInMonth(year, month))]

-----------------------------------------------------------------------------
(* BudgetService._calculate_period_end_date *)

BudgetPeriodType == {"weekly", "monthly", "quarterly", "yearly"}

_calculate_period_end_date(start_date, period_type) ==
    CASE period_type = "weekly" -> start_date + 6
      [] period_type = "monthly" ->
            ToOrdinal(relativedelta(ToDate(start_date), 0, 1)) - 1
      [] period_type = "quarterly" ->
            ToOrdinal(relativedelta(ToDate(start_date), 0, 3)) - 1
      [] period_type = "yearly" ->
            ToOrdinal(relativedelta(ToDate(start_date), 1, 0)) - 1

\* Specification of the period dates: a start date and a cadence are drawn,
\* the end date is calculated, and the next period starts the day after as
\* in _create_next_period.
MaxStartDay == 800

NoDebts ==
    /\ debts = <<>>
    /\ plan = [strategy |-> "none"]
    /\ payments = <<>>
    /\ last = [op |-> "none"]
    /\ sim = [month |-> 0, balance |-> 0]

InitDates ==
    /\ NoDebts
    /\ NoBudgets
    /\ NoChecks
    /\ NoTracker
    /\ calc_in \in [start_date : 1..MaxStartDay, period_type : BudgetPeriodType]
    /\ calc_out = [op |-> "none"]

CallPeriodEndDate ==
    /\ calc_out.op = "none"
    /\ calc_out' = [op |-> "period_end",
                    result |-> _calculate_period_end_date(calc_in.start_date,
                                                          calc_in.period_type)]
    /\ UNCHANGED <<calc_in, sim>>
    /\ UNCHANGED debt_vars
    /\ UNCHANGED budget_vars
    /\ UNCHANGED limiter_vars
    /\ UNCHANGED tracker_vars

NextPeriodStart ==
    /\ calc_out.op = "period_end"
    /\ calc_out.result + 1 <= MaxStartDay
    /\ calc_in' = [calc_in EXCEPT !.start_date = calc_out.result + 1]
    /\ calc_out' = [op |-> "none"]
    /\ UNCHANGED sim
    /\ UNCHANGED debt_vars
    /\ UNCHANGED budget_vars
    /\ UNCHANGED limiter_vars
    /\ UNCHANGED tracker_vars

NextDates == CallPeriodEndDate \/ NextPeriodStart

SpecDates == InitDates /\ [][NextDates]_vars

-----------------------------------------------------------------------------
(* BudgetService: budgets, budget periods and rollover *)

\* Amounts are in cents.  A nullable column holds 0 for NULL: category_id
\* (ids start at 1), max_rollover_periods (ge=1 when set) and
\* max_rollover_amount (gt=0 when set); the code tests all three by
\* truthiness, which NULL and 0 fail alike.

RECURSIVE SumAmounts(_)
SumAmounts(rows) ==
    IF rows = <<>> THEN 0 ELSE Head(rows).amount + SumAmounts(Tail(rows))

\* the expenses of every category count
PeriodExpenses_AnyCategory(budget, period) ==
    SelectSeq(transactions,
              LAMBDA t : /\ t.user_id = budget.user_id
                         /\ t.transaction_type = "expense"
                         /\ t.transaction_date >= period.start_date
                         /\ t.transaction_date <= period.end_date)

\* the expenses that count against a period of a budget
PeriodExpenses(budget, period) ==
    SelectSeq(transactions,
              LAMBDA t : /\ t.user_id = budget.user_id
                         /\ t.transaction_type = "expense"
                         /\ t.transaction_date >= period.start_date
                         /\ t.transaction_date <= period.end_date
                         /\ (budget.category_id # 0 =>
                                 t.category_id = budget.category_id))

\* the budget_periods table after row k has had its spending recomputed
_update_period_spent_amount(budget_rows, rows, k) ==
    LET period == rows[k]
        budget == budget_rows[period.budget_id]
        spent == SumAmounts(PeriodExpenses(budget, period))
    IN  [rows EXCEPT ![k] = [period EXCEPT !.spent_amount = spent,
                                           !.remaining_amount =
                                               period.total_amount - spent]]

\* the index of the period of the budget that contains today, 0 for None
get_current_period(rows, budget_id) ==
    LET found == {k \in 1..Len(rows) : /\ rows[k].budget_id = budget_id
                                       /\ rows[k].start_date <= today
                                       /\ rows[k].end_date >= today}
    IN  IF found = {} THEN 0
        ELSE CHOOSE k \in found : \A other \in found : k <= other

\* the budget_periods table after the first period of a budget is added
_create_initial_period(budget_rows, rows, budget_id) ==
    LET budget == budget_rows[budget_id]
        period == [budget_id |-> budget_id,
                   start_date |-> budget.start_date,
                   end_date |-> _calculate_period_end_date(budget.start_date,
                                                           budget.period_type),
                   base_amount |-> budget.amount,
                   rollover_amount |-> 0,
                   total_amount |-> budget.amount,
                   spent_amount |-> 0,
                   remaining_amount |-> budget.amount,
                   is_closed |-> FALSE]
        added == Append(rows, period)
    IN  _update_period_spent_amount(budget_rows, added, Len(added))

\* the whole total of the previous period is carried
CarriedFrom_Total(budget, previous_period) ==
    IF budget.allow_rollover /\ previous_period.total_amount > 0
    THEN previous_period.total_amount
    ELSE 0

\* what the previous period leaves to carry, before the limits
CarriedFrom(budget, previous_period) ==
    IF budget.allow_rollover /\ previous_period.remaining_amount > 0
    THEN previous_period.remaining_amount
    ELSE 0

\* the limit is reached one period late
PeriodsLimited_OneMore(budget, periods_with_rollover, rollover_amount) ==
    IF /\ budget.max_rollover_periods # 0
       /\ periods_with_rollover > budget.max_rollover_periods
    THEN 0
    ELSE rollover_amount

\* max_rollover_periods: nothing is carried once that many earlier periods
\* have had a rollover
PeriodsLimited(budget, periods_with_rollover, rollover_amount) ==
    IF /\ budget.max_rollover_periods # 0
       /\ periods_with_rollover >= budget.max_rollover_periods
    THEN 0
    ELSE rollover_amount

\* the amount limit is not applied
AmountLimited_Unlimited(budget, rollover_amount) ==
    rollover_amount

\* max_rollover_amount: no more than that is carried
AmountLimited(budget, rollover_amount) ==
    IF budget.max_rollover_amount # 0 /\ rollover_amount > budget.max_rollover_amount
    THEN budget.max_rollover_amount
    ELSE rollover_amount

\* the budget_periods table after the period that follows row prev is added:
\* row prev is closed with its spending recomputed, and the new period
\* starts the day after with what is carried over
_create_next_period(budget_rows, rows, budget_id, prev) ==
    LET budget == budget_rows[budget_id]
        closed == IF ~rows[prev].is_closed
                  THEN [_update_period_spent_amount(budget_rows, rows, prev)
                            EXCEPT ![prev].is_closed = TRUE]
                  ELSE rows
        previous_period == closed[prev]
        start_date == previous_period.end_date + 1
        end_date == _calculate_period_end_date(start_date, budget.period_type)
        periods_with_rollover ==
            Cardinality({k \in 1..Len(closed) :
                            /\ closed[k].budget_id = budget_id
                            /\ closed[k].rollover_amount > 0
                            /\ closed[k].end_date < start_date})
        carried == CarriedFrom(budget, previous_period)
        rollover_amount ==
            IF carried > 0
            THEN AmountLimited(budget,
                     PeriodsLimited(budget, periods_with_rollover, carried))
            ELSE 0
        period == [budget_id |-> budget_id,
                   start_date |-> start_date,
                   end_date |-> end_date,
                   base_amount |-> budget.amount,
                   rollover_amount |-> rollover_amount,
                   total_amount |-> budget.amount + rollover_amount,
                   spent_amount |-> 0,
                   remaining_amount |-> budget.amount + rollover_amount,
                   is_closed |-> FALSE]
        added == Append(closed, period)
    IN  _update_period_spent_amount(budget_rows, added, Len(added))

\* the index of the period of the budget with the greatest end date, 0 for None
LatestPeriod(rows, budget_id) ==
    LET of_budget == {k \in 1..Len(rows) : rows[k].budget_id = budget_id}
    IN  IF of_budget = {} THEN 0
        ELSE CHOOSE k \in of_budget :
                 \A other \in of_budget : rows[other].end_date <= rows[k].end_date

\* the loop with its test at the end: a period is added before the target
\* date is looked at
RECURSIVE RolloverLoop_TestAtEnd(_, _, _, _)
RolloverLoop_TestAtEnd(rows, budget_id, target_date, periods_processed) ==
    LET added == _create_next_period(budgets, rows, budget_id,
                                     LatestPeriod(rows, budget_id))
    IN  IF added[LatestPeriod(added, budget_id)].end_date >= target_date
        THEN [periods |-> added, periods_processed |-> periods_processed + 1]
        ELSE RolloverLoop_TestAtEnd(added, budget_id, target_date,
                                    periods_processed + 1)

\* the loop of process_rollover: periods are added until one reaches the
\* target date
RECURSIVE RolloverLoop(_, _, _, _)
RolloverLoop(rows, budget_id, target_date, periods_processed) ==
    LET latest_period == LatestPeriod(rows, budget_id)
    IN  IF latest_period # 0 /\ rows[latest_period].end_date >= target_date
        THEN [periods |-> rows, periods_processed |-> periods_processed]
        ELSE RolloverLoop(IF latest_period # 0
                          THEN _create_next_period(budgets, rows, budget_id,
                                                   latest_period)
                          ELSE _create_initial_period(budgets, rows, budget_id),
                          budget_id, target_date, periods_processed + 1)

\* the budget row a request of a user may act on, as a set: empty when the
\* id is unknown or the budget is another user's
FindBudget(user_id, budget_id) ==
    {b \in 1..Len(budgets) : b = budget_id /\ budgets[b].user_id = user_id}

process_rollover(user_id, rollover_request) ==
    IF FindBudget(user_id, rollover_request.budget_id) = {}
    THEN [ok |-> FALSE, periods |-> periods, periods_processed |-> 0]
    ELSE IF ~budgets[rollover_request.budget_id].allow_rollover
    THEN [ok |-> FALSE, periods |-> periods, periods_processed |-> 0]
    ELSE LET target_date == IF rollover_request.period_date # 0
                            THEN rollover_request.period_date
                            ELSE today
             done == RolloverLoop(periods, rollover_request.budget_id,
                                  target_date, 0)
         IN  [ok |-> TRUE, periods |-> done.periods,
              periods_processed |-> done.periods_processed]

create_budget(user_id, budget_data) ==
    LET budget_id == Len(budgets) + 1
        db_budget == [id |-> budget_id,
                      user_id |-> user_id,
                      category_id |-> budget_data.category_id,
                      period_type |-> budget_data.period_type,
                      start_date |-> budget_data.start_date,
                      amount |-> budget_data.amount,
                      allow_rollover |-> budget_data.allow_rollover,
                      max_rollover_periods |-> budget_data.max_rollover_periods,
                      max_rollover_amount |-> budget_data.max_rollover_amount,
                      is_active |-> TRUE]
        budget_rows == Append(budgets, db_budget)
    IN  [budgets |-> budget_rows,
         periods |-> _create_initial_period(budget_rows, periods, budget_id)]

\* the total of the current period becomes the new amount alone
update_budget_TotalIsAmount(user_id, budget_id, budget_data) ==
    IF FindBudget(user_id, budget_id) = {}
    THEN [ok |-> FALSE, budgets |-> budgets, periods |-> periods]
    ELSE LET db_budget == [field \in DOMAIN budgets[budget_id] |->
                              IF field \in DOMAIN budget_data
                              THEN budget_data[field]
                              ELSE budgets[budget_id][field]]
             budget_rows == [budgets EXCEPT ![budget_id] = db_budget]
             current_period == get_current_period(periods, budget_id)
         IN  [ok |-> TRUE,
              budgets |-> budget_rows,
              periods |->
                  IF /\ "amount" \in DOMAIN budget_data
                     /\ current_period # 0
                     /\ ~periods[current_period].is_closed
                  THEN _update_period_spent_amount(
                           budget_rows,
                           [periods EXCEPT
                               ![current_period].base_amount = budget_data.amount,
                               ![current_period].total_amount =
                                   budget_data.amount],
                           current_period)
                  ELSE periods]

\* budget_data holds the fields the request sets
update_budget(user_id, budget_id, budget_data) ==
    IF FindBudget(user_id, budget_id) = {}
    THEN [ok |-> FALSE, budgets |-> budgets, periods |-> periods]
    ELSE LET db_budget == [field \in DOMAIN budgets[budget_id] |->
                              IF field \in DOMAIN budget_data
                              THEN budget_data[field]
                              ELSE budgets[budget_id][field]]
             budget_rows == [budgets EXCEPT ![budget_id] = db_budget]
             current_period == get_current_period(periods, budget_id)
         IN  [ok |-> TRUE,
              budgets |-> budget_rows,
              periods |->
                  IF /\ "amount" \in DOMAIN budget_data
                     /\ current_period # 0
                     /\ ~periods[current_period].is_closed
                  THEN _update_period_spent_amount(
                           budget_rows,
                           [periods EXCEPT
                               ![current_period].base_amount = budget_data.amount,
                               ![current_period].total_amount =
                                   budget_data.amount
                                   + periods[current_period].rollover_amount],
                           current_period)
                  ELSE periods]

\* the budget_periods table after the summary of one budget is served
get_budget_summary(user_id, budget_id) ==
    IF FindBudget(user_id, budget_id) = {} THEN periods
    ELSE LET current_period == get_current_period(periods, budget_id)
         IN  IF current_period = 0 THEN periods
             ELSE _update_period_spent_amount(budgets, periods, current_period)

-----------------------------------------------------------------------------
(* TransactionService.create_transaction and delete_transaction *)

create_transaction(user_id, transaction_data) ==
    Append(transactions, [user_id |-> user_id,
                          transaction_type |-> transaction_data.transaction_type,
                          category_id |-> transaction_data.category_id,
                          transaction_date |-> transaction_data.transaction_date,
                          amount |-> transaction_data.amount])

delete_transaction(user_id, transaction_id) ==
    IF /\ transaction_id \in 1..Len(transactions)
       /\ transactions[transaction_id].user_id = user_id
    THEN SubSeq(transactions, 1, transaction_id - 1)
         \o SubSeq(transactions, transaction_id + 1, Len(transactions))
    ELSE transactions

-----------------------------------------------------------------------------
(* Specification of the budget engine.  It follows one budget of user 1    *)
(* through its periods: every query of the engine filters on the budget    *)
(* id, so that other budgets do not enter in what happens to this one,     *)
(* while transactions of both users and of two categories do.              *)

MaxTransactions == 1
MaxDay == 22

\* the step of the clock, in days
TimeStep == 7

BudgetUser == 1

Budget(period_type, category_id, allow_rollover, max_periods, max_amount) ==
    [category_id |-> category_id,
     period_type |-> period_type,
     start_date |-> 1,
     amount |-> 100,
     allow_rollover |-> allow_rollover,
     max_rollover_periods |-> max_periods,
     max_rollover_amount |-> max_amount]

BudgetCatalog ==
    {Budget("weekly", 0, TRUE, 0, 0), Budget("weekly", 1, TRUE, 1, 50),
     Budget("weekly", 0, TRUE, 2, 0)}

BudgetUpdates ==
    [amount : {150}] \cup [max_rollover_periods : {2}]
    \cup [allow_rollover : {FALSE, TRUE}]

Transaction(user_id, transaction_type, category_id, transaction_date, amount) ==
    [user_id |-> user_id,
     transaction_type |-> transaction_type,
     category_id |-> category_id,
     transaction_date |-> transaction_date,
     amount |-> amount]

TransactionCatalog ==
    {Transaction(1, "expense", 1, 3, 40), Transaction(1, "expense", 1, 3, 100),
     Transaction(1, "expense", 1, 3, 120), Transaction(1, "expense", 2, 10, 60),
     Transaction(2, "expense", 1, 3, 60)}

\* period_date of a rollover request, 0 for None
RolloverDates == {0, MaxDay}

InitBudget ==
    /\ NoBudgets
    /\ NoChecks
    /\ NoTracker
    /\ NoDebts
    /\ calc_in = [balance |-> 0, rate |-> 0, payment |-> 0]
    /\ calc_out = [op |-> "none"]

CreateBudget ==
    /\ budgets = <<>>
    /\ \E budget_data \in BudgetCatalog :
          LET after == create_budget(BudgetUser, budget_data)
          IN  /\ budgets' = after.budgets
              /\ periods' = after.periods
              /\ cap_history' = Append(cap_history, {budget_data.max_rollover_periods})
    /\ UNCHANGED <<transactions, today, rollover_calls, calc_in, calc_out, sim>>
    /\ UNCHANGED debt_vars
    /\ UNCHANGED limiter_vars
    /\ UNCHANGED tracker_vars

UpdateBudget ==
    /\ \E user_id \in Users, budget_id \in 1..Len(budgets), budget_data \in BudgetUpdates :
          LET after == update_budget(user_id, budget_id, budget_data)
          IN  /\ budgets' = after.budgets
              /\ periods' = after.periods
              /\ cap_history' =
                     [cap_history EXCEPT ![budget_id] =
                         @ \cup {after.budgets[budget_id].max_rollover_periods}]
    /\ UNCHANGED <<transactions, today, rollover_calls, calc_in, calc_out, sim>>
    /\ UNCHANGED debt_vars
    /\ UNCHANGED limiter_vars
    /\ UNCHANGED tracker_vars

ProcessRollover ==
    /\ \E user_id \in Users, budget_id \in 1..Len(budgets), period_date \in RolloverDates :
          periods' = process_rollover(user_id, [budget_id |-> budget_id,
                                                period_date |-> period_date]).periods
    /\ UNCHANGED <<budgets, transactions, today, cap_history, rollover_calls,
                   calc_in, calc_out, sim>>
    /\ UNCHANGED debt_vars
    /\ UNCHANGED limiter_vars
    /\ UNCHANGED tracker_vars

GetBudgetSummary ==
    /\ \E user_id \in Users, budget_id \in 1..Len(budgets) :
          periods' = get_budget_summary(user_id, budget_id)
    /\ UNCHANGED <<budgets, transactions, today, cap_history, rollover_calls,
                   calc_in, calc_out, sim>>
    /\ UNCHANGED debt_vars
    /\ UNCHANGED limiter_vars
    /\ UNCHANGED tracker_vars

CreateTransaction ==
    /\ Len(transactions) < MaxTransactions
    /\ \E t \in TransactionCatalog :
          transactions' = create_transaction(t.user_id, t)
    /\ UNCHANGED <<budgets, periods, today, cap_history, rollover_calls,
                   calc_in, calc_out, sim>>
    /\ UNCHANGED debt_vars
    /\ UNCHANGED limiter_vars
    /\ UNCHANGED tracker_vars

DeleteTransaction ==
    /\ \E user_id \in Users, transaction_id \in 1..Len(transactions) :
          transactions' = delete_transaction(user_id, transaction_id)
    /\ UNCHANGED <<budgets, periods, today, cap_history, rollover_calls,
                   calc_in, calc_out, sim>>
    /\ UNCHANGED debt_vars
    /\ UNCHANGED limiter_vars
    /\ UNCHANGED tracker_vars

AdvanceTime ==
    /\ today + TimeStep <= MaxDay
    /\ today' = today + TimeStep
    /\ UNCHANGED <<budgets, periods, transactions, cap_history, rollover_calls,
                   calc_in, calc_out, sim>>
    /\ UNCHANGED debt_vars
    /\ UNCHANGED limiter_vars
    /\ UNCHANGED tracker_vars

NextBudget ==
    \/ CreateBudget
    \/ UpdateBudget
    \/ ProcessRollover
    \/ GetBudgetSummary
    \/ CreateTransaction
    \/ DeleteTransaction
    \/ AdvanceTime

SpecBudget == InitBudget /\ [][NextBudget]_vars

-----------------------------------------------------------------------------
(* Specification of concurrent rollovers.  Every request runs in a         *)
(* database transaction of its own (get_db): a process_rollover call reads *)
(* what is committed and what it wrote itself, and its rows reach the      *)
(* other calls when it commits.  The unique constraint on (budget_id,      *)
(* start_date) makes an insert wait for an uncommitted row with the same   *)
(* key and fail against a committed one.  No transaction row is entered    *)
(* here, so that closing a period changes its is_closed flag only.         *)

MaxCalls == 2

\* a call: latest_period is what its last query for the latest period
\* answered and the loop has not used yet, as the start date of that period
NoCall ==
    [state |-> "idle", budget_id |-> 0, target_date |-> 0, latest_period |-> <<>>,
     closed |-> {}, created |-> <<>>, periods_processed |-> 0, error |-> ""]

\* date.max, 31 December 9999, as a day number: date arithmetic that goes
\* past it raises OverflowError
date_max == 2913174

\* weekly budgets that start in the last days of the calendar
LateBudgets ==
    {[Budget("weekly", 0, TRUE, 0, 0) EXCEPT !.start_date = date_max - back] :
        back \in {11, 13}}

\* period_date of a rollover request in the last days of the calendar
LateDates == {date_max - 2, date_max}

\* the budget_periods table as a call sees it: the committed rows, those it
\* closed being closed, then the rows it added
ViewOf(call) ==
    [k \in 1..Len(periods) |->
        IF k \in call.closed THEN [periods[k] EXCEPT !.is_closed = TRUE]
        ELSE periods[k]] \o call.created

\* the constraint is missing from the table
_budget_period_uc_Absent(rows, period) ==
    FALSE

\* UniqueConstraint("budget_id", "start_date"): the rows hold the key of the
\* period already
_budget_period_uc(rows, period) ==
    \E k \in 1..Len(rows) : /\ rows[k].budget_id = period.budget_id
                            /\ rows[k].start_date = period.start_date

\* the test that ends the loop of process_rollover
TargetReached(call) ==
    LET latest_period == LatestPeriod(ViewOf(call), call.budget_id)
    IN  /\ latest_period # 0
        /\ ViewOf(call)[latest_period].end_date >= call.target_date

\* the row of the view that the call read as the latest period
ReadPeriod(call) ==
    CHOOSE k \in 1..Len(ViewOf(call)) :
        /\ ViewOf(call)[k].budget_id = call.budget_id
        /\ ViewOf(call)[k].start_date = call.latest_period[1]

\* the view of the call after the body of its loop has run on the period it
\* read
NextPeriodOf(call) ==
    _create_next_period(budgets, ViewOf(call), call.budget_id, ReadPeriod(call))

\* another call holds an uncommitted row with the key of the period
HeldByOther(c, period) ==
    \E other \in 1..MaxCalls :
        /\ other # c
        /\ rollover_calls[other].state = "running"
        /\ _budget_period_uc(rollover_calls[other].created, period)

InitRollover ==
    /\ NoDebts
    /\ budgets = <<>>
    /\ periods = <<>>
    /\ transactions = <<>>
    /\ today = 1
    /\ cap_history = <<>>
    /\ rollover_calls = [c \in 1..MaxCalls |-> NoCall]
    /\ NoChecks
    /\ NoTracker
    /\ calc_in = [balance |-> 0, rate |-> 0, payment |-> 0]
    /\ calc_out = [op |-> "none"]

\* create_budget for a budget of the last days of the calendar
CreateLateBudget ==
    /\ budgets = <<>>
    /\ \E budget_data \in LateBudgets :
          LET after == create_budget(BudgetUser, budget_data)
          IN  /\ budgets' = after.budgets
              /\ periods' = after.periods
              /\ cap_history' = Append(cap_history, {budget_data.max_rollover_periods})
    /\ UNCHANGED <<transactions, today, rollover_calls, calc_in, calc_out, sim>>
    /\ UNCHANGED debt_vars
    /\ UNCHANGED limiter_vars
    /\ UNCHANGED tracker_vars

\* process_rollover up to its loop
BeginRollover ==
    /\ \E c \in 1..MaxCalls, user_id \in Users, budget_id \in 1..Len(budgets),
          period_date \in RolloverDates \cup LateDates :
          /\ rollover_calls[c].state # "running"
          /\ period_date <= budgets[budget_id].start_date + MaxDay
          /\ FindBudget(user_id, budget_id) # {}
          /\ budgets[budget_id].allow_rollover
          /\ rollover_calls' =
                 [rollover_calls EXCEPT ![c] =
                     [NoCall EXCEPT !.state = "running",
                                    !.budget_id = budget_id,
                                    !.target_date = IF period_date # 0
                                                    THEN period_date
                                                    ELSE today]]
    /\ UNCHANGED <<budgets, periods, transactions, today, cap_history,
                   calc_in, calc_out, sim>>
    /\ UNCHANGED debt_vars
    /\ UNCHANGED limiter_vars
    /\ UNCHANGED tracker_vars

\* the query at the head of the loop, when its answer does not end the loop
ReadLatestPeriod ==
    /\ \E c \in 1..MaxCalls :
          LET call == rollover_calls[c]
              latest_period == LatestPeriod(ViewOf(call), call.budget_id)
          IN  /\ call.state = "running"
              /\ call.latest_period = <<>>
              /\ ~TargetReached(call)
              /\ rollover_calls' =
                     [rollover_calls EXCEPT ![c].latest_period =
                         <<ViewOf(call)[latest_period].start_date>>]
    /\ UNCHANGED <<budgets, periods, transactions, today, cap_history,
                   calc_in, calc_out, sim>>
    /\ UNCHANGED debt_vars
    /\ UNCHANGED limiter_vars
    /\ UNCHANGED tracker_vars

\* the body of the loop: the period read is closed and the next one
\* inserted, in the transaction of the call
CreatePeriod ==
    /\ \E c \in 1..MaxCalls :
          LET call == rollover_calls[c]
              after == NextPeriodOf(call)
              period == after[Len(after)]
          IN  /\ call.state = "running"
              /\ call.latest_period # <<>>
              /\ period.end_date <= date_max
              /\ ~HeldByOther(c, period)
              /\ ~_budget_period_uc(ViewOf(call), period)
              /\ rollover_calls' =
                     [rollover_calls EXCEPT ![c] =
                         [call EXCEPT
                             !.latest_period = <<>>,
                             !.closed = {k \in 1..Len(periods) :
                                            after[k].is_closed /\ ~periods[k].is_closed},
                             !.created = SubSeq(after, Len(periods) + 1, Len(after)),
                             !.periods_processed = @ + 1]]
    /\ UNCHANGED <<budgets, periods, transactions, today, cap_history,
                   calc_in, calc_out, sim>>
    /\ UNCHANGED debt_vars
    /\ UNCHANGED limiter_vars
    /\ UNCHANGED tracker_vars

\* the insert breaks the unique constraint: IntegrityError, and get_db rolls
\* the transaction back
RejectPeriod ==
    /\ \E c \in 1..MaxCalls :
          LET call == rollover_calls[c]
              after == NextPeriodOf(call)
              period == after[Len(after)]
          IN  /\ call.state = "running"
              /\ call.latest_period # <<>>
              /\ period.end_date <= date_max
              /\ ~HeldByOther(c, period)
              /\ _budget_period_uc(ViewOf(call), period)
              /\ rollover_calls' =
                     [rollover_calls EXCEPT ![c] = [NoCall EXCEPT !.state = "failed",
                                        !.budget_id = call.budget_id,
                                        !.target_date = call.target_date,
                                        !.error = "IntegrityError"]]
    /\ UNCHANGED <<budgets, periods, transactions, today, cap_history,
                   calc_in, calc_out, sim>>
    /\ UNCHANGED debt_vars
    /\ UNCHANGED limiter_vars
    /\ UNCHANGED tracker_vars

\* the end date of the next period is past date.max: OverflowError, and
\* get_db rolls the transaction back
OverflowPeriod ==
    /\ \E c \in 1..MaxCalls :
          LET call == rollover_calls[c]
              after == NextPeriodOf(call)
              period == after[Len(after)]
          IN  /\ call.state = "running"
              /\ call.latest_period # <<>>
              /\ period.end_date > date_max
              /\ rollover_calls' =
                     [rollover_calls EXCEPT ![c] =
                         [NoCall EXCEPT !.state = "failed",
                                        !.budget_id = call.budget_id,
                                        !.target_date = call.target_date,
                                        !.error = "OverflowError"]]
    /\ UNCHANGED <<budgets, periods, transactions, today, cap_history,
                   calc_in, calc_out, sim>>
    /\ UNCHANGED debt_vars
    /\ UNCHANGED limiter_vars
    /\ UNCHANGED tracker_vars

\* the query at the head of the loop answers a period that reaches the
\* target date: the loop is left and the transaction committed
CommitRollover ==
    /\ \E c \in 1..MaxCalls :
          LET call == rollover_calls[c]
          IN  /\ call.state = "running"
              /\ call.latest_period = <<>>
              /\ TargetReached(call)
              /\ periods' = ViewOf(call)
              /\ rollover_calls' =
                     [rollover_calls EXCEPT ![c] =
                         [NoCall EXCEPT !.state = "done",
                                        !.budget_id = call.budget_id,
                                        !.target_date = call.target_date,
                                        !.periods_processed = call.periods_processed]]
    /\ UNCHANGED <<budgets, transactions, today, cap_history, calc_in, calc_out, sim>>
    /\ UNCHANGED debt_vars
    /\ UNCHANGED limiter_vars
    /\ UNCHANGED tracker_vars

NextRollover ==
    \/ CreateBudget
    \/ CreateLateBudget
    \/ BeginRollover
    \/ ReadLatestPeriod
    \/ CreatePeriod
    \/ RejectPeriod
    \/ OverflowPeriod
    \/ CommitRollover
    \/ AdvanceTime

SpecRollover == InitRollover /\ [][NextRollover]_vars

-----------------------------------------------------------------------------
(* Specification of the rate limiter.  Redis is reachable and answers      *)
(* every command; time passes in steps of TickSeconds, and a key with a    *)
(* time to live disappears when that reaches 0.  One check_rate_limit call *)
(* is one step: its commands follow each other within the same second.     *)

\* RateLimiter.TIERS
TIERS ==
    [auth |-> [limit |-> 5, window |-> 300],
     api |-> [limit |-> 60, window |-> 60],
     write |-> [limit |-> 30, window |-> 60],
     sensitive |-> [limit |-> 10, window |-> 60]]

\* the tiers a caller may name: the four of TIERS and one that is not there
TierNames == {"auth", "api", "write", "sensitive", "other"}

\* cls.TIERS.get(tier, cls.TIERS["api"])
TierConfig(tier) ==
    IF tier \in DOMAIN TIERS THEN TIERS[tier] ELSE TIERS["api"]

\* the client keys that are followed
ClientKeys == {"client"}

\* f"rate_limit:{tier}:{key}"
RedisKeys == TierNames \X ClientKeys

\* the step of the clock, in seconds
TickSeconds == 30

\* how far above the limit of its tier a counter is followed
MaxOver == 2

\* a key that does not exist: GET answers nothing and TTL answers -2
NoKey == [value |-> 0, ttl |-> -2]

\* what check_rate_limit returns, with Redis after the call
check_rate_limit(key, tier, increment) ==
    LET config == TierConfig(tier)
        redis_key == <<tier, key>>
        current == IF increment THEN redis[redis_key].value + 1
                   ELSE redis[redis_key].value
        incremented ==
            IF increment
            THEN [redis EXCEPT ![redis_key] =
                     [value |-> current,
                      ttl |-> IF current = 1 THEN config.window ELSE @.ttl]]
            ELSE redis
        ttl == incremented[redis_key].ttl
    IN  [redis |-> incremented,
         allowed |-> current <= config.limit,
         remaining |-> IF config.limit - current > 0 THEN config.limit - current ELSE 0,
         reset |-> IF ttl > 0 THEN ttl ELSE config.window,
         limit |-> config.limit]

InitLimiter ==
    /\ NoDebts
    /\ NoBudgets
    /\ calc_in = [balance |-> 0, rate |-> 0, payment |-> 0]
    /\ calc_out = [op |-> "none"]
    /\ redis = [redis_key \in RedisKeys |-> NoKey]
    /\ rate_limit = [op |-> "none"]
    /\ windows = [redis_key \in RedisKeys |-> [elapsed |-> 0, made |-> 0]]
    /\ NoTracker

\* One key is followed at a time.  windows counts the counted checks of the
\* key since the first one of its window, by the clock and not by Redis.
CheckRateLimit ==
    /\ \E key \in ClientKeys, tier \in TierNames, increment \in BOOLEAN :
          LET redis_key == <<tier, key>>
              after == check_rate_limit(key, tier, increment)
              made == IF increment THEN windows[redis_key].made + 1
                      ELSE windows[redis_key].made
          IN  /\ \A other \in RedisKeys \ {redis_key} : redis[other] = NoKey
              /\ increment => redis[redis_key].value < TierConfig(tier).limit + MaxOver
              /\ redis' = after.redis
              /\ windows' = [windows EXCEPT ![redis_key].made = made]
              /\ rate_limit' = [op |-> "check_rate_limit",
                                key |-> key,
                                tier |-> tier,
                                increment |-> increment,
                                made |-> made,
                                allowed |-> after.allowed,
                                remaining |-> after.remaining,
                                reset |-> after.reset,
                                limit |-> after.limit]
    /\ UNCHANGED <<calc_in, calc_out, sim>>
    /\ UNCHANGED debt_vars
    /\ UNCHANGED budget_vars
    /\ UNCHANGED tracker_vars

\* TickSeconds go by: Redis drops the keys whose time to live is over, and
\* a window that has lasted as long as its tier says is over
Tick ==
    /\ \E redis_key \in RedisKeys : windows[redis_key].made > 0
    /\ redis' = [redis_key \in RedisKeys |->
                    IF redis[redis_key].ttl > TickSeconds
                    THEN [redis[redis_key] EXCEPT !.ttl = @ - TickSeconds]
                    ELSE IF redis[redis_key].ttl > 0 THEN NoKey
                    ELSE redis[redis_key]]
    /\ windows' = [redis_key \in RedisKeys |->
                      IF windows[redis_key].made = 0 THEN windows[redis_key]
                      ELSE IF windows[redis_key].elapsed + TickSeconds
                                  >= TierConfig(redis_key[1]).window
                      THEN [elapsed |-> 0, made |-> 0]
                      ELSE [windows[redis_key] EXCEPT !.elapsed = @ + TickSeconds]]
    /\ rate_limit' = [op |-> "none"]
    /\ UNCHANGED <<calc_in, calc_out, sim>>
    /\ UNCHANGED debt_vars
    /\ UNCHANGED budget_vars
    /\ UNCHANGED tracker_vars

NextLimiter == CheckRateLimit \/ Tick

SpecLimiter == InitLimiter /\ [][NextLimiter]_vars

-----------------------------------------------------------------------------
(* Specification of the error tracker.  An error is named by its rank      *)
(* among the errors passed to track_error.  A _flush_errors call gives way *)
(* to the other tasks at each await, so that it is followed from its copy  *)
(* of the queue to its end; one flush is followed at a time.               *)

\* "Flush if queue is getting large"
FlushThreshold == 100

\* redis_client.ltrim("error_log", 0, 9999) keeps that many entries
LogLimit == 10000

\* how many errors are tracked
MaxErrors == 101

\* how many errors are tracked while a flush is under way
MaxDuringFlush == 1

\* how many flushes fail on a Redis error
MaxFailures == 1
MaxPeriodic == 1

\* get_redis_client(): a client, or None when init_redis could not connect
RedisClients == {"client", "None"}

Idle == [state |-> "idle"]

\* the set of the elements of a sequence
Range(seq) == {seq[k] : k \in 1..Len(seq)}

\* lpush of the first n errors of a batch, one after the other
RECURSIVE lpush(_, _, _)
lpush(log, errors_to_flush, n) ==
    IF n = 0 THEN log
    ELSE <<errors_to_flush[n]>> \o lpush(log, errors_to_flush, n - 1)

\* ltrim(0, LogLimit - 1)
ltrim(log) ==
    IF Len(log) > LogLimit THEN SubSeq(log, 1, LogLimit) ELSE log

\* how many errors of a batch Redis has taken when a flush is cancelled
Pushed(errors_to_flush) == {0, 1} \cap 0..Len(errors_to_flush)

\* _flush_errors on a queue that is not empty, up to its first await on
\* Redis: the queue is copied and cleared.  Without a client there is no
\* such await, and the call is over with nothing written.
BeginFlush(queue, by) ==
    IF tracker.redis_client = "None" THEN Idle
    ELSE [state |-> "flushing", errors_to_flush |-> queue, by |-> by]

InitTracker ==
    /\ NoDebts
    /\ NoBudgets
    /\ NoChecks
    /\ calc_in = [balance |-> 0, rate |-> 0, payment |-> 0]
    /\ calc_out = [op |-> "none"]
    /\ error_queue = <<>>
    /\ error_log = <<>>
    /\ flush = Idle
    /\ \E redis_client \in RedisClients :
          tracker = [state |-> "running", redis_client |-> redis_client,
                     tracked |-> 0, during_flush |-> 0, failures |-> 0,
                     periodic |-> 0]

\* track_error: the error joins the queue, and a queue of FlushThreshold
\* errors is flushed
TrackError ==
    /\ tracker.state = "running"
    /\ tracker.tracked < MaxErrors
    /\ flush.state = "flushing" =>
           /\ tracker.during_flush < MaxDuringFlush
           /\ Len(error_queue) + 1 < FlushThreshold
    /\ LET queue == Append(error_queue, tracker.tracked + 1)
       IN  IF Len(queue) >= FlushThreshold
           THEN /\ error_queue' = <<>>
                /\ flush' = BeginFlush(queue, "track_error")
                /\ tracker' = [tracker EXCEPT !.tracked = @ + 1, !.during_flush = 0]
           ELSE /\ error_queue' = queue
                /\ flush' = flush
                /\ tracker' = [tracker EXCEPT !.tracked = @ + 1,
                                              !.during_flush =
                                                  IF flush.state = "flushing"
                                                  THEN @ + 1 ELSE 0]
    /\ UNCHANGED error_log
    /\ UNCHANGED <<calc_in, calc_out, sim>>
    /\ UNCHANGED debt_vars
    /\ UNCHANGED budget_vars
    /\ UNCHANGED limiter_vars

\* _flush_errors_periodically wakes up and calls _flush_errors
PeriodicFlush ==
    /\ tracker.state = "running"
    /\ flush.state = "idle"
    /\ tracker.periodic < MaxPeriodic
    /\ error_queue # <<>>
    /\ error_queue' = <<>>
    /\ flush' = BeginFlush(error_queue, "periodic")
    /\ tracker' = [tracker EXCEPT !.during_flush = 0, !.periodic = @ + 1]
    /\ UNCHANGED error_log
    /\ UNCHANGED <<calc_in, calc_out, sim>>
    /\ UNCHANGED debt_vars
    /\ UNCHANGED budget_vars
    /\ UNCHANGED limiter_vars

\* the flush under way pushes its errors and trims the list
FlushWrites ==
    /\ flush.state = "flushing"
    /\ error_log' = ltrim(lpush(error_log, flush.errors_to_flush,
                                Len(flush.errors_to_flush)))
    /\ flush' = Idle
    /\ UNCHANGED <<error_queue, tracker>>
    /\ UNCHANGED <<calc_in, calc_out, sim>>
    /\ UNCHANGED debt_vars
    /\ UNCHANGED budget_vars
    /\ UNCHANGED limiter_vars

\* the first Redis command of the flush under way raises (the connection is
\* lost): the errors of the batch are put back at the end of the queue
FlushFails ==
    /\ flush.state = "flushing"
    /\ tracker.failures < MaxFailures
    /\ error_log' = error_log
    /\ error_queue' = error_queue \o flush.errors_to_flush
    /\ flush' = Idle
    /\ tracker' = [tracker EXCEPT !.failures = @ + 1]
    /\ UNCHANGED <<calc_in, calc_out, sim>>
    /\ UNCHANGED debt_vars
    /\ UNCHANGED budget_vars
    /\ UNCHANGED limiter_vars

\* shutdown: the periodic task is cancelled, which ends a flush it has under
\* way with CancelledError at its await, and the queue is flushed
Shutdown ==
    /\ tracker.state = "running"
    /\ flush.state = "flushing" => flush.by = "periodic"
    /\ IF flush.state = "flushing"
       THEN \E n \in Pushed(flush.errors_to_flush) :
                error_log' = lpush(error_log, flush.errors_to_flush, n)
       ELSE error_log' = error_log
    /\ IF error_queue # <<>>
       THEN /\ error_queue' = <<>>
            /\ flush' = BeginFlush(error_queue, "shutdown")
       ELSE /\ error_queue' = error_queue
            /\ flush' = Idle
    /\ tracker' = [tracker EXCEPT !.state = "stopped", !.during_flush = 0]
    /\ UNCHANGED <<calc_in, calc_out, sim>>
    /\ UNCHANGED debt_vars
    /\ UNCHANGED budget_vars
    /\ UNCHANGED limiter_vars

NextTracker ==
    \/ TrackError
    \/ PeriodicFlush
    \/ FlushWrites
    \/ FlushFails
    \/ Shutdown

SpecTracker == InitTracker /\ [][NextTracker]_vars

-----------------------------------------------------------------------------
(* Claims about the calculators, checked under SpecCalc *)

\* a payoff-time answer is available for an input that covers the interest,
\* and the reference simulation has reached a zero balance
PayoffAnswered ==
    /\ calc_out.op = "payoff"
    /\ CoversInterest(calc_in)
    /\ sim.balance = 0

\* C3 as stated: for a positive balance and a payment above the first
\* month's interest, calculate_payoff_time returns the first month at which
\* the compounding balance reaches 0.
C3_Original ==
    PayoffAnswered => calc_out.result.months = sim.month

\* C3 amended: it returns the first month at which the compounding balance
\* reaches 0 when that month comes before the 1000-month safety limit, and
\* (-1, -1) when the balance is still positive after 1000 months.
C3_PayoffMonths ==
    PayoffAnswered =>
        /\ sim.month < SafetyLimit => calc_out.result.months = sim.month
        /\ sim.month > SafetyLimit => calc_out.result = NeverPaysOff

\* C3 witness: an interest-bearing debt whose payoff takes two months because
\* of the interest accrued in the first, answered with that month count
C3_Witness ==
    /\ PayoffAnswered
    /\ calc_in.rate > 0
    /\ calc_in.payment > calc_in.balance
    /\ sim.month = 2
    /\ calc_out.result.months = 2

\* C10: _calculate_payment_split conserves the payment: principal and
\* interest are both non-negative and sum to the payment amount.
C10_SplitConserves ==
    calc_out.op = "split" =>
        /\ calc_out.result.principal >= 0
        /\ calc_out.result.interest >= 0
        /\ calc_out.result.principal + calc_out.result.interest = calc_in.payment

\* C10 witness: a payment larger than balance plus interest, split into the
\* whole balance as principal and the rest as interest
C10_Witness ==
    /\ calc_out.op = "split"
    /\ calc_in.balance > 0
    /\ calc_in.rate > 0
    /\ calc_out.result.principal = calc_in.balance
    /\ calc_out.result.interest = calc_in.payment - calc_in.balance
    /\ calc_out.result.interest > RoundHalfUp(calc_in.balance * calc_in.rate, RateDen)

-----------------------------------------------------------------------------
(* Claims about the payoff plan, checked under SpecPlan *)

\* the row of the debt listed at position i of the plan
PlanDebt(i) == debts[plan.debts[i].debt_id]

\* sum of the minimum payments of the debts listed before position i
RECURSIVE FreedMinimums(_)
FreedMinimums(i) ==
    IF i <= 1 THEN 0
    ELSE PlanDebt(i - 1).minimum_payment + FreedMinimums(i - 1)

\* C1: freed-up minimum payments cascade: every debt listed after the first
\* is projected with its own minimum payment plus the extra payment plus the
\* minimum payments of the debts ordered before it.
C1_Cascade ==
    plan.strategy # "none" =>
        \A i \in 2..Len(plan.debts) :
            LET r == calculate_payoff_time(
                         PlanDebt(i).current_balance, PlanDebt(i).interest_rate,
                         PlanDebt(i).minimum_payment + plan.extra_monthly_payment
                             + FreedMinimums(i))
            IN  /\ plan.debts[i].months_to_payoff = r.months
                /\ plan.debts[i].total_interest = r.total_interest

\* C2: the debts listed in a plan are in strategy order: non-decreasing
\* current balance for snowball, non-increasing interest rate for avalanche.
C2_PlanOrdered ==
    \A i, j \in 1..Len(IF plan.strategy = "none" THEN <<>> ELSE plan.debts) :
        i < j =>
            /\ plan.strategy = "snowball" =>
                   plan.debts[i].current_balance <= plan.debts[j].current_balance
            /\ plan.strategy = "avalanche" =>
                   PlanDebt(i).interest_rate >= PlanDebt(j).interest_rate

\* C2 witness: an avalanche plan listing three debts of three different
\* rates that were created in another order than the plan lists them
C2_Witness ==
    /\ plan.strategy = "avalanche"
    /\ Len(plan.debts) = 3
    /\ PlanDebt(1).interest_rate > PlanDebt(2).interest_rate
    /\ PlanDebt(2).interest_rate > PlanDebt(3).interest_rate
    /\ plan.debts[1].debt_id > plan.debts[2].debt_id

-----------------------------------------------------------------------------
(* Claims about recorded payments, checked under SpecDebt *)

\* the last request was a record_payment that succeeded
PaymentRecorded ==
    /\ last.op = "record_payment"
    /\ last.ok

\* the payment record that request stored
LastPayment == payments[Len(payments)]

\* one month's interest on the balance the payment met, rounded to cents
MonthInterest ==
    RoundHalfUp(last.before.current_balance * last.before.interest_rate, RateDen)

\* C8 as stated: a successful record_payment reduces the balance by exactly
\* payment amount minus one month's interest (rounded to cents) and stores a
\* payment record carrying that principal and interest.
C8_Original ==
    PaymentRecorded =>
        /\ debts[last.debt_id].current_balance =
               last.before.current_balance - (last.amount - MonthInterest)
        /\ LastPayment.principal_amount = last.amount - MonthInterest
        /\ LastPayment.interest_amount = MonthInterest

\* C8 amended: the principal portion is payment amount minus one month's
\* interest, not below 0 and not above the balance; the balance is reduced
\* by exactly that principal, and the stored payment record carries that
\* principal and the rest of the payment as interest.
C8_BalanceReducedByPrincipal ==
    PaymentRecorded =>
        LET principal == Min(last.before.current_balance,
                             Max(0, last.amount - MonthInterest))
        IN  /\ debts[last.debt_id].current_balance =
                   last.before.current_balance - principal
            /\ LastPayment.principal_amount = principal
            /\ LastPayment.interest_amount = last.amount - principal
            /\ LastPayment.debt_id = last.debt_id
            /\ LastPayment.amount = last.amount

\* C8 witness: a part payment on an interest-bearing debt of the caller
C8_Witness ==
    /\ PaymentRecorded
    /\ last.before.user_id = last.user_id
    /\ MonthInterest > 0
    /\ LastPayment.principal_amount = last.amount - MonthInterest
    /\ LastPayment.principal_amount > 0
    /\ debts[last.debt_id].current_balance > 0
    /\ debts[last.debt_id].current_balance < last.before.current_balance

\* C9: a payment whose principal portion is at least the current balance
\* sets the balance to 0.00 and the status to PAID_OFF; a payment whose
\* principal portion is smaller leaves the status unchanged.
C9_PaidOffIffCovered ==
    PaymentRecorded =>
        IF last.amount - MonthInterest >= last.before.current_balance
        THEN /\ debts[last.debt_id].current_balance = 0
             /\ debts[last.debt_id].status = "paid_off"
        ELSE debts[last.debt_id].status = last.before.status

\* C9 witness: a payment that covers balance and interest of an open debt
C9_Witness ==
    /\ PaymentRecorded
    /\ last.before.current_balance > 0
    /\ last.before.status = "active"
    /\ last.amount - MonthInterest >= last.before.current_balance
    /\ debts[last.debt_id].status = "paid_off"
    /\ debts[last.debt_id].current_balance = 0

-----------------------------------------------------------------------------
(* Claims about the period dates, under SpecDates *)

PeriodEndAnswered == calc_out.op = "period_end"

\* the number of the month of a date, counted from year 0
MonthIndex(d) == d.year * 12 + d.month

\* the cadence of a period type in months
CadenceMonths(period_type) ==
    CASE period_type = "monthly" -> 1
      [] period_type = "quarterly" -> 3
      [] period_type = "yearly" -> 12

\* C7 as the specification states it: a weekly period ends 6 days after its
\* start, and a monthly, quarterly or yearly period ends on the day before
\* the same date one month, three months or one year later; the end is never
\* before the start.
C7_Original ==
    PeriodEndAnswered =>
        LET start == ToDate(calc_in.start_date)
            after == ToDate(calc_out.result + 1)
        IN  /\ calc_out.result >= calc_in.start_date
            /\ calc_in.period_type = "weekly" =>
                   calc_out.result = calc_in.start_date + 6
            /\ calc_in.period_type # "weekly" =>
                   /\ MonthIndex(after) =
                          MonthIndex(start) + CadenceMonths(calc_in.period_type)
                   /\ after.day = start.day

\* C7: a weekly period ends 6 days after its start; a monthly, quarterly or
\* yearly period ends on the day before the date one month, three months or
\* one year after its start, which is the same day of the month, or the last
\* day of the month reached when that month is too short to have that day;
\* the end is never before the start.
C7_PeriodEndDate ==
    PeriodEndAnswered =>
        LET start == ToDate(calc_in.start_date)
            after == ToDate(calc_out.result + 1)
        IN  /\ calc_out.result >= calc_in.start_date
            /\ calc_in.period_type = "weekly" =>
                   calc_out.result = calc_in.start_date + 6
            /\ calc_in.period_type # "weekly" =>
                   /\ MonthIndex(after) =
                          MonthIndex(start) + CadenceMonths(calc_in.period_type)
                   /\ \/ after.day = start.day
                      \/ /\ after.day < start.day
                         /\ after.day = DaysInMonth(after.year, after.month)

\* a monthly period that starts on 31 January of the leap year has ended
\* on 28 February, the day before the last day of the month reached
C7_Witness ==
    /\ PeriodEndAnswered
    /\ calc_in.period_type = "monthly"
    /\ ToDate(calc_in.start_date) = [year |-> EpochYear, month |-> 1, day |-> 31]
    /\ ToDate(calc_out.result) = [year |-> EpochYear, month |-> 2, day |-> 28]

-----------------------------------------------------------------------------
(* Claims about the rollover, under SpecBudget *)

\* the rows of budget_periods that the step adds
AddedPeriods == (Len(periods) + 1)..Len(periods')

\* the period before row i among the periods of the same budget, 0 if none
PreviousPeriod(rows, i) ==
    LET earlier == {k \in 1..(i - 1) : rows[k].budget_id = rows[i].budget_id}
    IN  IF earlier = {} THEN 0
        ELSE CHOOSE k \in earlier : \A other \in earlier : other <= k

\* how many periods of the budget of row i before row i carry a rollover
RolloversBefore(rows, i) ==
    Cardinality({k \in 1..(i - 1) : /\ rows[k].budget_id = rows[i].budget_id
                                    /\ rows[k].rollover_amount > 0})

\* neither limit of the budget binds on what row i may carry from row prev
NoCapBinding(budget, rows, i, prev) ==
    /\ \/ budget.max_rollover_periods = 0
       \/ RolloversBefore(rows, i) < budget.max_rollover_periods
    /\ \/ budget.max_rollover_amount = 0
       \/ rows[prev].remaining_amount <= budget.max_rollover_amount

\* C4: a period added after a previous one finds that one closed, with its
\* remaining amount being its total less the expenses in its dates; the new
\* period's rollover_amount is 0 when that remaining amount is not positive
\* or rollover is disabled, and is that remaining amount when it is positive,
\* rollover is enabled and no cap binds.
C4_RolloverCarried ==
    [][\A i \in AddedPeriods :
          LET prev == PreviousPeriod(periods', i)
              budget == budgets'[periods'[i].budget_id]
          IN  prev # 0 =>
                  /\ periods'[prev].is_closed
                  /\ periods'[prev].remaining_amount =
                         periods'[prev].total_amount
                         - SumAmounts(PeriodExpenses(budget, periods'[prev]))
                  /\ (periods'[prev].remaining_amount <= 0 \/ ~budget.allow_rollover)
                         => periods'[i].rollover_amount = 0
                  /\ (/\ periods'[prev].remaining_amount > 0
                      /\ budget.allow_rollover
                      /\ NoCapBinding(budget, periods', i, prev))
                         => periods'[i].rollover_amount =
                                periods'[prev].remaining_amount]_vars

\* a budget without caps has a second period that carries what the first,
\* closed after part of it was spent, had left
C4_Witness ==
    /\ Len(budgets) = 1 /\ Len(periods) >= 2
    /\ budgets[1].allow_rollover
    /\ budgets[1].max_rollover_periods = 0 /\ budgets[1].max_rollover_amount = 0
    /\ periods[1].is_closed
    /\ periods[1].spent_amount > 0
    /\ periods[1].remaining_amount > 0
    /\ periods[1].remaining_amount = periods[1].total_amount - periods[1].spent_amount
    /\ periods[2].rollover_amount = periods[1].remaining_amount

\* C5: the rollover_amount of a period that is added is not negative, and
\* when the budget has a max_rollover_amount it is not above it.
C5_RolloverWithinCap ==
    [][\A i \in AddedPeriods :
          LET budget == budgets'[periods'[i].budget_id]
          IN  /\ periods'[i].rollover_amount >= 0
              /\ budget.max_rollover_amount # 0 =>
                     periods'[i].rollover_amount <= budget.max_rollover_amount]_vars

\* a period carries exactly the max_rollover_amount of its budget, the
\* period before it having left more than that
C5_Witness ==
    \E i \in 2..Len(periods) :
        /\ budgets[periods[i].budget_id].max_rollover_amount # 0
        /\ periods[i].rollover_amount =
               budgets[periods[i].budget_id].max_rollover_amount
        /\ periods[i - 1].is_closed
        /\ periods[i - 1].remaining_amount > periods[i].rollover_amount

\* the periods of a budget, oldest first
PeriodsOf(budget_id) == SelectSeq(periods, LAMBDA p : p.budget_id = budget_id)

\* C6: for a budget whose max_rollover_periods has been N since it was
\* created, among any N + 1 consecutive periods there is one without a
\* positive rollover.
C6_RolloverRunBounded ==
    \A b \in 1..Len(budgets) :
        \A N \in 1..Len(periods) :
            cap_history[b] = {N} =>
                \A i \in 1..(Len(PeriodsOf(b)) - N) :
                    \E j \in i..(i + N) : PeriodsOf(b)[j].rollover_amount <= 0

\* a budget limited to N periods since it was created has had N periods in
\* a row with a rollover, and then one that carries nothing although the
\* period before it left something
C6_Witness ==
    \E b \in 1..Len(budgets) :
        LET N == budgets[b].max_rollover_periods
        IN  /\ N >= 1
            /\ cap_history[b] = {N}
            /\ Len(PeriodsOf(b)) >= N + 2
            /\ \A j \in 2..(N + 1) : PeriodsOf(b)[j].rollover_amount > 0
            /\ PeriodsOf(b)[N + 2].rollover_amount = 0
            /\ PeriodsOf(b)[N + 1].remaining_amount > 0
            /\ budgets[b].allow_rollover

-----------------------------------------------------------------------------
(* Further claims about calculate_payoff_time, under SpecCalc *)

\* C11: when the balance is positive and the payment does not exceed the
\* first month's interest on it, or equals it, calculate_payoff_time
\* returns (-1, -1).
C11_NeverPaidOff ==
    (/\ calc_out.op = "payoff"
     /\ calc_in.balance > 0
     /\ calc_in.payment * RateDen <= calc_in.balance * calc_in.rate)
        => calc_out.result = NeverPaysOff

-----------------------------------------------------------------------------
(* Further claims about the payoff plan, under SpecPlan *)

\* what calculate_payoff_time answers for the debt listed at position i of
\* the plan when it is paid with its minimum payment only
MinimumOnlyAnswer(i) ==
    calculate_payoff_time(PlanDebt(i).current_balance, PlanDebt(i).interest_rate,
                          PlanDebt(i).minimum_payment)

RECURSIVE MinimumOnlyInterest(_)
MinimumOnlyInterest(i) ==
    IF i = 0 THEN 0
    ELSE MinimumOnlyAnswer(i).total_interest + MinimumOnlyInterest(i - 1)

\* C12: a plan's total_interest_saved is never negative, and when every
\* debt it lists can be paid off with its minimum payment it is the total
\* interest of those debts under minimum payments less their total
\* interest under the plan.
C12_InterestSaved ==
    plan.strategy # "none" =>
        /\ plan.total_interest_saved >= 0
        /\ (\A i \in 1..Len(plan.debts) : MinimumOnlyAnswer(i).months >= 0) =>
               plan.total_interest_saved =
                   MinimumOnlyInterest(Len(plan.debts)) - SumInterest(plan.debts)

\* C13: the debts listed in a plan carry the payoff_order values 1, 2, ...
\* in list order.
C13_PayoffOrder ==
    plan.strategy # "none" =>
        \A i \in 1..Len(plan.debts) : plan.debts[i].payoff_order = i

-----------------------------------------------------------------------------
(* Claims about the amounts of a period, under SpecBudget *)

\* C14: every budget period has total_amount = base_amount + rollover_amount.
C14_TotalIsBasePlusRollover ==
    \A k \in 1..Len(periods) :
        periods[k].total_amount = periods[k].base_amount + periods[k].rollover_amount

\* a period that carries a rollover has had its base amount changed by an
\* update of the budget amount, and its total is the sum of the two
C14_Witness ==
    \E k \in 2..Len(periods) :
        /\ periods[k].rollover_amount > 0
        /\ periods[k].base_amount # periods[k - 1].base_amount
        /\ periods[k].base_amount = budgets[periods[k].budget_id].amount
        /\ periods[k].total_amount =
               periods[k].base_amount + periods[k].rollover_amount

RECURSIVE SumOfRows(_, _)
SumOfRows(rows, chosen) ==
    IF chosen = {} THEN 0
    ELSE LET k == CHOOSE k \in chosen : TRUE
         IN  rows[k].amount + SumOfRows(rows, chosen \ {k})

\* the sum of the expense transactions of the owner of a budget that are
\* dated within a period, of the category of the budget when it has one
OwnerExpenses(budget, period) ==
    SumOfRows(transactions,
              {k \in 1..Len(transactions) :
                  /\ transactions[k].user_id = budget.user_id
                  /\ transactions[k].transaction_type = "expense"
                  /\ transactions[k].transaction_date \in
                         period.start_date..period.end_date
                  /\ \/ budget.category_id = 0
                     \/ transactions[k].category_id = budget.category_id})

-----------------------------------------------------------------------------
(* Further claims about the debt ledger, under SpecDebt *)

C18_BalanceMonotone ==
    [][last'.op = "record_payment" =>
          /\ \A d \in 1..Len(debts) :
                 /\ debts'[d].current_balance >= 0
                 /\ debts'[d].current_balance <= debts[d].current_balance
          /\ last'.ok =>
                 /\ payments'[Len(payments')].principal_amount >= 0
                 /\ payments'[Len(payments')].principal_amount
                        <= debts[last'.debt_id].current_balance
                 /\ debts'[last'.debt_id].current_balance =
                        debts[last'.debt_id].current_balance
                        - payments'[Len(payments')].principal_amount]_vars

\* two payments on one debt: the first left part of the balance, and the
\* second, larger than what was left, took the balance to 0 and no further
C18_Witness ==
    /\ Len(payments) = 2
    /\ PaymentRecorded
    /\ payments[1].debt_id = last.debt_id
    /\ payments[1].principal_amount > 0
    /\ last.before.current_balance > 0
    /\ last.amount > last.before.current_balance
    /\ LastPayment.principal_amount = last.before.current_balance
    /\ debts[last.debt_id].current_balance = 0

-----------------------------------------------------------------------------
(* Claims about concurrent rollovers, under SpecRollover *)

\* the rows of the committed table that belong to the budget
RowsOf(budget_id) ==
    {k \in 1..Len(periods) : periods[k].budget_id = budget_id}

\* C19: the committed periods of a budget are contiguous and do not overlap,
\* however process_rollover calls are interleaved: the first starts on the
\* start date of the budget, each later one starts the day after the latest
\* of the earlier ones ends, and no two of them share a start date or a day.
C19_PeriodsContiguous ==
    \A b \in 1..Len(budgets) :
        /\ \A k \in RowsOf(b) :
              LET earlier == {j \in RowsOf(b) : j < k}
              IN  /\ periods[k].start_date <= periods[k].end_date
                  /\ earlier = {} => periods[k].start_date = budgets[b].start_date
                  /\ earlier # {} =>
                         \E j \in earlier :
                             /\ \A i \in earlier :
                                    periods[i].end_date <= periods[j].end_date
                             /\ periods[k].start_date = periods[j].end_date + 1
        /\ \A j, k \in RowsOf(b) :
              j # k => /\ periods[j].start_date # periods[k].start_date
                       /\ \/ periods[j].end_date < periods[k].start_date
                          \/ periods[k].end_date < periods[j].start_date

\* two calls ran at the same time on one budget: one committed the periods
\* it created, the other was refused the start date it wanted to insert
C19_Witness ==
    /\ rollover_calls[1].state = "done"
    /\ rollover_calls[1].periods_processed >= 2
    /\ rollover_calls[2].state = "failed"
    /\ Cardinality(RowsOf(1)) >= 3

\* C20: a process_rollover call on a budget with rollover enabled does not
\* end in an error of its own, whatever the target date, and when it
\* returns the latest period of the budget ends on or after the target date
\* and periods_processed is the number of periods the call added.
C20_RolloverCompletes ==
    [][\A c \in 1..MaxCalls :
          rollover_calls[c].state = "running" =>
              /\ rollover_calls'[c].error # "OverflowError"
              /\ rollover_calls'[c].state = "done" =>
                     /\ \E k \in 1..Len(periods') :
                            /\ periods'[k].budget_id = rollover_calls'[c].budget_id
                            /\ periods'[k].end_date >= rollover_calls'[c].target_date
                     /\ rollover_calls'[c].periods_processed =
                            Len(periods') - Len(periods)]_vars

-----------------------------------------------------------------------------
(* Claims about the rate limiter, under SpecLimiter *)

\* C17: of the counted checks of a key within one window exactly the first
\* `limit` are allowed, every check made after those, counted or not, is
\* denied, and remaining is max(0, limit - count).
C17_WindowLimit ==
    rate_limit.op = "check_rate_limit" =>
        /\ rate_limit.limit = TierConfig(rate_limit.tier).limit
        /\ rate_limit.increment =>
               (rate_limit.allowed <=> rate_limit.made <= rate_limit.limit)
        /\ (~rate_limit.increment /\ rate_limit.made >= rate_limit.limit) =>
               ~rate_limit.allowed
        /\ rate_limit.remaining =
               IF rate_limit.limit - rate_limit.made > 0
               THEN rate_limit.limit - rate_limit.made
               ELSE 0

-----------------------------------------------------------------------------
(* Further claims about the budget engine, under SpecBudget *)

\* C21: a period that is closed keeps its base, rollover, total, spent and
\* remaining amounts and stays closed, whatever request is served next.
C21_ClosedPeriodFrozen ==
    [][\A k \in 1..Len(periods) :
          periods[k].is_closed =>
              /\ k <= Len(periods')
              /\ periods'[k].is_closed
              /\ periods'[k].base_amount = periods[k].base_amount
              /\ periods'[k].rollover_amount = periods[k].rollover_amount
              /\ periods'[k].total_amount = periods[k].total_amount
              /\ periods'[k].spent_amount = periods[k].spent_amount
              /\ periods'[k].remaining_amount = periods[k].remaining_amount]_vars

-----------------------------------------------------------------------------
(* Claims about the status of debts, under SpecDebt *)

\* C22: in every state a debt whose status is PAID_OFF has a current
\* balance of 0.
C22_PaidOffIsZero ==
    \A debt_id \in 1..Len(debts) :
        debts[debt_id].status = "paid_off" => debts[debt_id].current_balance = 0

-----------------------------------------------------------------------------
(* Further claims about the calculators, under SpecCalc *)

\* C23: when the compounding balance reaches 0 within the 1000 months that
\* calculate_payoff_time simulates, the answer is the month in which it does,
\* and (-1, -1) is answered only for a balance that is still positive after
\* those 1000 months.
C23_LimitOnlyWhenUnpaid ==
    PayoffAnswered =>
        /\ sim.month <= SafetyLimit => calc_out.result.months = sim.month
        /\ calc_out.result = NeverPaysOff => sim.month > SafetyLimit

-----------------------------------------------------------------------------
(* Further claims about rollover, under SpecBudget *)

\* C24: for a budget with rollover enabled whose max_rollover_periods has
\* been N since it was created, once the cap has left a period without
\* rollover, a period added later after a period that ends with unspent
\* budget carries a positive rollover_amount again.
C24_RolloverResumes ==
    [][\A i \in AddedPeriods :
          LET b == periods'[i].budget_id
              prev == PreviousPeriod(periods', i)
              N == budgets[b].max_rollover_periods
          IN  (/\ prev # 0
               /\ budgets[b].allow_rollover
               /\ N >= 1
               /\ cap_history[b] = {N}
               /\ periods'[prev].remaining_amount > 0
               /\ \E j \in 1..prev :
                      /\ periods'[j].budget_id = b
                      /\ periods'[j].rollover_amount = 0
                      /\ RolloversBefore(periods', j) >= N)
              => periods'[i].rollover_amount > 0]_vars

\* what process_rollover returns when the table of periods is rows: the
\* call reads the budget, which no process_rollover call changes, and runs
\* its loop on the rows
RolloverOn(rows, user_id, rollover_request) ==
    IF \/ FindBudget(user_id, rollover_request.budget_id) = {}
       \/ ~budgets[rollover_request.budget_id].allow_rollover
    THEN [periods |-> rows, periods_processed |-> 0]
    ELSE RolloverLoop(rows, rollover_request.budget_id,
                      IF rollover_request.period_date # 0
                      THEN rollover_request.period_date
                      ELSE today,
                      0)

\* C25: in every state and for every process_rollover request that is
\* served, the same request made again right after it creates no period,
\* reports periods_processed = 0 and leaves every period as the first call
\* left it.
C25_RolloverIdempotent ==
    \A user_id \in Users, b \in 1..Len(budgets), period_date \in RolloverDates :
        LET rollover_request == [budget_id |-> b, period_date |-> period_date]
            first == process_rollover(user_id, rollover_request)
        IN  first.ok =>
                RolloverOn(first.periods, user_id, rollover_request) =
                    [periods |-> first.periods, periods_processed |-> 0]

\* a call has added periods, one of them closed with an expense in it, and
\* the same call made now adds none and changes none
C25_Witness ==
    /\ Len(budgets) = 1
    /\ Len(periods) >= 3
    /\ periods[1].is_closed
    /\ periods[1].spent_amount > 0
    /\ process_rollover(BudgetUser, [budget_id |-> 1, period_date |-> MaxDay]).ok
    /\ process_rollover(BudgetUser, [budget_id |-> 1, period_date |-> MaxDay]).periods
           = periods
    /\ process_rollover(BudgetUser,
                        [budget_id |-> 1, period_date |-> MaxDay]).periods_processed = 0

-----------------------------------------------------------------------------
(* Claims about soft-deleted debts, under SpecDebt *)

\* C26: a record_payment on a debt that delete_debt has soft-deleted does
\* not succeed, and leaves the debts and the payments as they were.
C26_DeletedDebtFrozen ==
    [][(/\ last'.op = "record_payment"
        /\ ~debts[last'.debt_id].is_active)
           => /\ ~last'.ok
              /\ debts' = debts
              /\ payments' = payments]_vars

-----------------------------------------------------------------------------
(* Claims about the error tracker, under SpecTracker *)

\* C27: when no flush is under way, every error that was passed to
\* track_error is in the error_log list or in the queue.
C27_NoErrorLost ==
    flush.state = "idle" =>
        \A error \in 1..tracker.tracked :
            error \in Range(error_log) \cup Range(error_queue)

=============================================================================
